---- MODULE Spec2Model ----
(***************************************************************************)
(* Model of cmd/tesla-http-proxy-insecure: the configuration record        *)
(* httpConfig, its resolution from flags and environment variables         *)
(* (init, flag.Parse, readFromEnvironment) and the startup sequence of     *)
(* main up to the blocking listener.                                       *)
(*                                                                         *)
(* Strings that the program parses (TESLA_HTTP_PROXY_PORT and              *)
(* TESLA_HTTP_PROXY_TIMEOUT) are sequences of one-character strings, so    *)
(* that strconv.Atoi and time.ParseDuration are computed character by      *)
(* character.  Strings that are only compared (host, TESLA_VERBOSE) are    *)
(* TLA+ strings.  A time.Duration is counted in milliseconds; the inputs   *)
(* use the units ms, s, m and h only and carry no fractional part, and the *)
(* integers have at most nine digits (Atoi's range error is not reached).  *)
(***************************************************************************)
EXTENDS Integers, Sequences, FiniteSets, TLC

VARIABLES
    httpConfig,   \* the process-wide *HTTPProxyConfig
    env,          \* the process environment: per variable what os.LookupEnv returns
    args,         \* the command line: per flag whether it is given, and its value
    pc,           \* position of the run
    err,          \* main's err variable (the one the deferred function reads)
    exitCode,     \* the process exit status, NoExit while the process runs
    stderr,       \* what was written to standard error / the log, in order
    debugLog,     \* whether log.SetLevel(log.LevelDebug) was called
    skey,         \* the private key main holds (protocol.ECDHPrivateKey)
    handler,      \* the proxy returned by proxy.New
    addr,         \* the address handed to http.ListenAndServe
    entry,        \* httpConfig as it was on entry to the last readFromEnvironment
    trace,        \* the steps executed so far, with their outcome
    run,          \* number of the current resolution (resolution harness)
    results       \* outcome of every finished resolution (resolution harness)

vars == <<httpConfig, env, args, pc, err, exitCode, stderr, debugLog, skey,
          handler, addr, entry, trace, run, results>>

----------------------------------------------------------------------------
(* Program constants *)

cacheSize == 10000

defaultPort == 8080

\* proxy.DefaultTimeout (pkg/proxy), 10 * time.Second, in milliseconds
DefaultTimeout == 10000

defaultHost == "localhost"

\* exit status of flag.ExitOnError on a malformed command line
flagErrorExit == 2

(* Bounds of the model *)

\* number of resolutions the resolution harness performs
MaxRuns == 2

\* exitCode of a process that has not exited
NoExit == 0 - 1

Nil == "nil"

----------------------------------------------------------------------------
(* strconv.Atoi on a sequence of characters *)

Digits == {"0", "1", "2", "3", "4", "5", "6", "7", "8", "9"}

DigitVal(c) ==
    CASE c = "0" -> 0 [] c = "1" -> 1 [] c = "2" -> 2 [] c = "3" -> 3
      [] c = "4" -> 4 [] c = "5" -> 5 [] c = "6" -> 6 [] c = "7" -> 7
      [] c = "8" -> 8 [] c = "9" -> 9

\* the digit loop of Atoi's fast path: a non-digit is a syntax error, value 0
RECURSIVE AtoiLoop(_, _)
AtoiLoop(s, n) ==
    IF s = <<>> THEN [val |-> n, err |-> FALSE]
    ELSE IF Head(s) \notin Digits THEN [val |-> 0, err |-> TRUE]
    ELSE AtoiLoop(Tail(s), n * 10 + DigitVal(Head(s)))

Atoi(s) ==
    IF s = <<>> THEN [val |-> 0, err |-> TRUE]
    ELSE LET body == IF Head(s) \in {"-", "+"} THEN Tail(s) ELSE s
         IN  IF body = <<>> THEN [val |-> 0, err |-> TRUE]
             ELSE LET r == AtoiLoop(body, 0)
                  IN  IF r.err THEN r
                      ELSE [val |-> IF Head(s) = "-" THEN 0 - r.val ELSE r.val,
                            err |-> FALSE]

----------------------------------------------------------------------------
(* time.ParseDuration on a sequence of characters, in milliseconds *)

unitNames == {<<"m", "s">>, <<"s">>, <<"m">>, <<"h">>}

unitMap(u) ==
    CASE u = <<"m", "s">> -> 1
      [] u = <<"s">> -> 1000
      [] u = <<"m">> -> 60000
      [] u = <<"h">> -> 3600000

\* leadingInt: consumes the leading digits of s
RECURSIVE leadingInt(_, _)
leadingInt(s, x) ==
    IF s # <<>> /\ Head(s) \in Digits
    THEN leadingInt(Tail(s), x * 10 + DigitVal(Head(s)))
    ELSE [x |-> x, rem |-> s]

\* length of the unit: the characters up to the next digit
RECURSIVE unitLen(_)
unitLen(s) ==
    IF s = <<>> \/ Head(s) \in Digits THEN 0 ELSE 1 + unitLen(Tail(s))

\* the loop over the terms <digits><unit> of a duration string
RECURSIVE durationTerms(_, _)
durationTerms(s, d) ==
    IF s = <<>> THEN [val |-> d, err |-> FALSE]
    ELSE IF Head(s) \notin Digits THEN [val |-> 0, err |-> TRUE]
    ELSE LET li == leadingInt(s, 0)
             i  == unitLen(li.rem)
             u  == SubSeq(li.rem, 1, i)
         IN  IF i = 0 THEN [val |-> 0, err |-> TRUE]
             ELSE IF u \notin unitNames THEN [val |-> 0, err |-> TRUE]
             ELSE durationTerms(SubSeq(li.rem, i + 1, Len(li.rem)),
                                d + li.x * unitMap(u))

ParseDuration(s) ==
    LET neg  == s # <<>> /\ Head(s) = "-"
        body == IF s # <<>> /\ Head(s) \in {"-", "+"} THEN Tail(s) ELSE s
    IN  IF body = <<"0">> THEN [val |-> 0, err |-> FALSE]
        ELSE IF body = <<>> THEN [val |-> 0, err |-> TRUE]
        ELSE LET r == durationTerms(body, 0)
             IN  IF r.err THEN r
                 ELSE [val |-> IF neg THEN 0 - r.val ELSE r.val, err |-> FALSE]

----------------------------------------------------------------------------
(* The configuration record *)

\* &HTTPProxyConfig{}: the zero value
ZeroConfig == [verbose |-> FALSE, host |-> "", port |-> 0, timeout |-> 0]

\* the defaults the flag registrations of init() store in the record
DefaultConfig ==
    [verbose |-> FALSE, host |-> defaultHost, port |-> defaultPort,
     timeout |-> DefaultTimeout]

\* flag.Parse: a flag that is given stores its value in the record
FlagParse(cfg, a) ==
    [verbose |-> IF a.verbose.set THEN a.verbose.val ELSE cfg.verbose,
     host    |-> IF a.host.set THEN a.host.val ELSE cfg.host,
     port    |-> IF a.port.set THEN a.port.val ELSE cfg.port,
     timeout |-> IF a.timeout.set THEN a.timeout.val ELSE cfg.timeout]

----------------------------------------------------------------------------
(* readFromEnvironment, field by field in the order of the code *)

\* the host step with os.Getenv in place of os.LookupEnv
ReadHost_Getenv(cfg, e) ==
    IF cfg.host = "localhost" THEN [cfg EXCEPT !.host = e.host.val] ELSE cfg

\* the host step without the test for the default
ReadHost_NoGuard(cfg, e) ==
    IF e.host.ok THEN [cfg EXCEPT !.host = e.host.val] ELSE cfg

ReadHost(cfg, e) ==
    IF cfg.host = "localhost" /\ e.host.ok
    THEN [cfg EXCEPT !.host = e.host.val]
    ELSE cfg

\* the verbose step with a strict boolean: only "true" and "1" switch it on
ReadVerbose_Strict(cfg, e) ==
    IF ~cfg.verbose /\ e.verbose.ok
    THEN [cfg EXCEPT !.verbose = (e.verbose.val \in {"true", "1"})]
    ELSE cfg

\* the verbose step without the test that verbose is still false
ReadVerbose_NoGuard(cfg, e) ==
    IF e.verbose.ok
    THEN [cfg EXCEPT !.verbose = (e.verbose.val # "false" /\ e.verbose.val # "0")]
    ELSE cfg

ReadVerbose(cfg, e) ==
    IF ~cfg.verbose /\ e.verbose.ok
    THEN [cfg EXCEPT !.verbose = (e.verbose.val # "false" /\ e.verbose.val # "0")]
    ELSE cfg

\* the port step testing for the zero value in place of defaultPort
ReadPort_ZeroSentinel(cfg, e) ==
    IF cfg.port = 0 /\ e.port.ok
    THEN LET r == Atoi(e.port.val)
         IN  [cfg |-> [cfg EXCEPT !.port = r.val],
              err |-> IF r.err THEN "invalid port" ELSE Nil]
    ELSE [cfg |-> cfg, err |-> Nil]

\* the port step deciding by whether the flag was given, not by the value
ReadPort_WasSet(cfg, e) ==
    IF ~args.port.set /\ e.port.ok
    THEN LET r == Atoi(e.port.val)
         IN  [cfg |-> [cfg EXCEPT !.port = r.val],
              err |-> IF r.err THEN "invalid port" ELSE Nil]
    ELSE [cfg |-> cfg, err |-> Nil]

\* the port step: the result of Atoi is stored before the error is looked at
ReadPort(cfg, e) ==
    IF cfg.port = defaultPort /\ e.port.ok
    THEN LET r == Atoi(e.port.val)
         IN  [cfg |-> [cfg EXCEPT !.port = r.val],
              err |-> IF r.err THEN "invalid port" ELSE Nil]
    ELSE [cfg |-> cfg, err |-> Nil]

\* the timeout step dropping the error of ParseDuration
ReadTimeout_SwallowError(cfg, e) ==
    IF cfg.timeout = DefaultTimeout /\ e.timeout.ok
    THEN [cfg |-> [cfg EXCEPT !.timeout = ParseDuration(e.timeout.val).val],
          err |-> Nil]
    ELSE [cfg |-> cfg, err |-> Nil]

\* the timeout step adding the parsed duration to the field, whatever it holds
ReadTimeout_Accumulate(cfg, e) ==
    IF e.timeout.ok
    THEN LET r == ParseDuration(e.timeout.val)
         IN  [cfg |-> [cfg EXCEPT !.timeout = cfg.timeout + r.val],
              err |-> IF r.err THEN "invalid timeout" ELSE Nil]
    ELSE [cfg |-> cfg, err |-> Nil]

\* the timeout step: the result of ParseDuration is stored before the error is looked at
ReadTimeout(cfg, e) ==
    IF cfg.timeout = DefaultTimeout /\ e.timeout.ok
    THEN LET r == ParseDuration(e.timeout.val)
         IN  [cfg |-> [cfg EXCEPT !.timeout = r.val],
              err |-> IF r.err THEN "invalid timeout" ELSE Nil]
    ELSE [cfg |-> cfg, err |-> Nil]

\* readFromEnvironment going on to the timeout step after a port error
readFromEnvironment_NoEarlyReturn(cfg, e) ==
    LET p == ReadPort(ReadVerbose(ReadHost(cfg, e), e), e)
        t == ReadTimeout(p.cfg, e)
    IN  [cfg |-> t.cfg, err |-> IF p.err # Nil THEN p.err ELSE t.err]

\* readFromEnvironment working on a copy that it stores only on success
readFromEnvironment_CommitOnSuccess(cfg, e) ==
    LET p == ReadPort(ReadVerbose(ReadHost(cfg, e), e), e)
        t == ReadTimeout(p.cfg, e)
    IN  IF p.err # Nil THEN [cfg |-> cfg, err |-> p.err]
        ELSE IF t.err # Nil THEN [cfg |-> cfg, err |-> t.err]
        ELSE t

readFromEnvironment(cfg, e) ==
    LET p == ReadPort(ReadVerbose(ReadHost(cfg, e), e), e)
    IN  IF p.err # Nil THEN p ELSE ReadTimeout(p.cfg, e)

----------------------------------------------------------------------------
(* Inputs: the environment and the command line of a run *)


Absent == [ok |-> FALSE, val |-> ""]

AbsentSeq == [ok |-> FALSE, val |-> <<>>]

Present(v) == [ok |-> TRUE, val |-> v]

NotGiven(zero) == [set |-> FALSE, val |-> zero]

Given(v) == [set |-> TRUE, val |-> v]

EnvHostValues == {"envhost", "localhost"}

EnvVerboseValues == {"true", "yes", "no", "false", "0", ""}

EnvPortValues ==
    { <<"9", "0", "9", "0">>,
      <<"8", "0", "8", "0">>,
      <<"7", "0", "0", "0", "0">>,
      <<"-", "1">>,
      <<"n", "o", "t", "a", "n", "u", "m", "b", "e", "r">> }

EnvTimeoutValues ==
    { <<"3", "0", "s">>,
      <<"1", "m", "3", "0", "s">>,
      <<"3", "0">>,
      <<"n", "o", "t", "a", "d", "u", "r", "a", "t", "i", "o", "n">> }

FlagHostValues == {"flaghost", "localhost"}

FlagPortValues == {8888, 8080, 70000}

FlagTimeoutValues == {60000, 10000}

Envs ==
    [host    : {Absent} \cup {Present(v) : v \in EnvHostValues},
     verbose : {Absent} \cup {Present(v) : v \in EnvVerboseValues},
     port    : {AbsentSeq} \cup {Present(v) : v \in EnvPortValues},
     timeout : {AbsentSeq} \cup {Present(v) : v \in EnvTimeoutValues}]

\* a command line flag.Parse accepts
GoodArgs ==
    [bad     : {FALSE},
     verbose : {NotGiven(FALSE)} \cup {Given(v) : v \in BOOLEAN},
     host    : {NotGiven("")} \cup {Given(v) : v \in FlagHostValues},
     port    : {NotGiven(0)} \cup {Given(v) : v \in FlagPortValues},
     timeout : {NotGiven(0)} \cup {Given(v) : v \in FlagTimeoutValues}]

\* a command line flag.Parse rejects (an unknown flag, an unparsable value)
BadArgs ==
    [bad |-> TRUE, verbose |-> NotGiven(FALSE), host |-> NotGiven(""),
     port |-> NotGiven(0), timeout |-> NotGiven(0)]

Args == GoodArgs \cup {BadArgs}

NoHandler == [built |-> FALSE, key |-> "", cache |-> 0, Timeout |-> 0]

NoAddr == [set |-> FALSE, host |-> "", port |-> 0, text |-> <<>>]

\* the zero value of skey, and the key config.PrivateKey() returns
NoKey == ""

LoadedKey == "ECDH private key"

\* strconv's decimal formatting of an int, as %d prints it
DigitChar(d) ==
    CASE d = 0 -> "0" [] d = 1 -> "1" [] d = 2 -> "2" [] d = 3 -> "3"
      [] d = 4 -> "4" [] d = 5 -> "5" [] d = 6 -> "6" [] d = 7 -> "7"
      [] d = 8 -> "8" [] d = 9 -> "9"

RECURSIVE FormatUint(_)
FormatUint(n) ==
    IF n < 10 THEN <<DigitChar(n)>>
    ELSE Append(FormatUint(n \div 10), DigitChar(n % 10))

FormatInt(n) == IF n < 0 THEN <<"-">> \o FormatUint(0 - n) ELSE FormatUint(n)

\* fmt.Sprintf("%s:%d", host, port): the host, a colon, the port in decimal
Sprintf(host, port) == <<host, ":">> \o FormatInt(port)

Step(name, ok) == [step |-> name, ok |-> ok]

\* the step has been executed with this outcome
Did(name, ok) == \E i \in 1..Len(trace) : trace[i] = Step(name, ok)

----------------------------------------------------------------------------
(* The run of the program: init() and main *)

Init ==
    /\ httpConfig = ZeroConfig
    /\ env \in Envs
    /\ args \in Args
    /\ pc = "Loaded"
    /\ err = Nil
    /\ exitCode = NoExit
    /\ stderr = <<>>
    /\ debugLog = FALSE
    /\ skey = NoKey
    /\ handler = NoHandler
    /\ addr = NoAddr
    /\ entry = ZeroConfig
    /\ trace = <<>>
    /\ run = 1
    /\ results = <<>>

\* the deferred function of main: a non-nil err is reported and exits with 1;
\* with a nil err main returns and the process ends with status 0
DeferredExit(e, out) ==
    IF e # Nil
    THEN [code |-> 1, out |-> Append(out, "Error")]
    ELSE [code |-> 0, out |-> out]

\* init(): the four flag registrations store the defaults
PackageInit ==
    /\ pc = "Loaded"
    /\ httpConfig' = DefaultConfig
    /\ pc' = "Unstarted"
    /\ trace' = Append(trace, Step("init", TRUE))
    /\ UNCHANGED <<env, args, err, exitCode, stderr, debugLog, skey, handler, addr,
                   entry, run, results>>

\* cli.NewConfig(cli.FlagPrivateKey) and its error exit
NewConfig ==
    /\ pc = "Unstarted"
    /\ \E ok \in BOOLEAN :
         /\ trace' = Append(trace, Step("NewConfig", ok))
         /\ IF ok
            THEN /\ pc' = "CredConfig"
                 /\ UNCHANGED <<err, exitCode, stderr>>
            ELSE /\ err' = "credential configuration"
                 /\ stderr' = Append(stderr, "Failed to load credential configuration")
                 /\ exitCode' = 1
                 /\ pc' = "Stopped"
    /\ UNCHANGED <<httpConfig, env, args, debugLog, skey, handler, addr, entry, run,
                   results>>

\* config.RegisterCommandLineFlags(); flag.Parse()
ParseFlags ==
    /\ pc = "CredConfig"
    /\ trace' = Append(trace, Step("flag.Parse", ~args.bad))
    /\ IF args.bad
       THEN /\ exitCode' = flagErrorExit
            /\ stderr' = Append(stderr, "flag")
            /\ pc' = "Stopped"
            /\ UNCHANGED httpConfig
       ELSE /\ httpConfig' = FlagParse(httpConfig, args)
            /\ pc' = "FlagsParsed"
            /\ UNCHANGED <<exitCode, stderr>>
    /\ UNCHANGED <<env, args, err, debugLog, skey, handler, addr, entry, run, results>>

\* err = readFromEnvironment() and its error exit; config.ReadFromEnvironment();
\* the log level
ApplyEnvironment ==
    /\ pc = "FlagsParsed"
    /\ LET r == readFromEnvironment(httpConfig, env)
       IN  /\ entry' = httpConfig
           /\ httpConfig' = r.cfg
           /\ err' = r.err
           /\ trace' = Append(trace, Step("readFromEnvironment", r.err = Nil))
           /\ IF r.err # Nil
              THEN /\ stderr' = Append(stderr, "Error reading environment")
                   /\ exitCode' = 1
                   /\ pc' = "Stopped"
                   /\ UNCHANGED debugLog
              ELSE /\ debugLog' = r.cfg.verbose
                   /\ pc' = "ConfigResolved"
                   /\ UNCHANGED <<stderr, exitCode>>
    /\ UNCHANGED <<env, args, skey, handler, addr, run, results>>

\* LoadPrivateKey asking the credential provider a second time after a failure
LoadPrivateKey_Retry ==
    /\ pc = "ConfigResolved"
    /\ \E ok \in BOOLEAN :
         /\ trace' = Append(trace, Step("PrivateKey", ok))
         /\ IF ok
            THEN /\ err' = Nil
                 /\ skey' = LoadedKey
                 /\ pc' = "CredentialLoaded"
                 /\ UNCHANGED <<exitCode, stderr>>
            ELSE IF ~Did("PrivateKey", FALSE)
            THEN /\ err' = "private key"
                 /\ skey' = NoKey
                 /\ pc' = "ConfigResolved"
                 /\ UNCHANGED <<exitCode, stderr>>
            ELSE /\ err' = "private key"
                 /\ skey' = NoKey
                 /\ exitCode' = DeferredExit("private key", stderr).code
                 /\ stderr' = DeferredExit("private key", stderr).out
                 /\ pc' = "Stopped"
    /\ UNCHANGED <<httpConfig, env, args, debugLog, handler, addr, entry, run,
                   results>>

\* LoadPrivateKey without the return on error
LoadPrivateKey_NoReturn ==
    /\ pc = "ConfigResolved"
    /\ \E ok \in BOOLEAN :
         /\ trace' = Append(trace, Step("PrivateKey", ok))
         /\ err' = IF ok THEN Nil ELSE "private key"
         /\ skey' = IF ok THEN LoadedKey ELSE NoKey
    /\ pc' = "CredentialLoaded"
    /\ UNCHANGED <<httpConfig, env, args, exitCode, stderr, debugLog, handler,
                   addr, entry, run, results>>

\* skey, err = config.PrivateKey(); on error main returns through the deferred function
LoadPrivateKey ==
    /\ pc = "ConfigResolved"
    /\ \E ok \in BOOLEAN :
         /\ trace' = Append(trace, Step("PrivateKey", ok))
         /\ IF ok
            THEN /\ err' = Nil
                 /\ skey' = LoadedKey
                 /\ pc' = "CredentialLoaded"
                 /\ UNCHANGED <<exitCode, stderr>>
            ELSE /\ err' = "private key"
                 /\ skey' = NoKey
                 /\ exitCode' = DeferredExit("private key", stderr).code
                 /\ stderr' = DeferredExit("private key", stderr).out
                 /\ pc' = "Stopped"
    /\ UNCHANGED <<httpConfig, env, args, debugLog, handler, addr, entry, run,
                   results>>

\* p, err := proxy.New(context.Background(), skey, cacheSize); on error main
\* returns through the deferred function
NewProxy ==
    /\ pc = "CredentialLoaded"
    /\ \E ok \in BOOLEAN :
         /\ trace' = Append(trace, Step("proxy.New", ok))
         /\ IF ok
            THEN /\ err' = Nil
                 /\ handler' = [built |-> TRUE, key |-> skey, cache |-> cacheSize,
                                Timeout |-> DefaultTimeout]
                 /\ pc' = "HandlerConstructed"
                 /\ UNCHANGED <<exitCode, stderr>>
            ELSE /\ err' = "proxy"
                 /\ exitCode' =
                        DeferredExit("proxy", Append(stderr, "Error initializing proxy service")).code
                 /\ stderr' =
                        DeferredExit("proxy", Append(stderr, "Error initializing proxy service")).out
                 /\ pc' = "Stopped"
                 /\ UNCHANGED handler
    /\ UNCHANGED <<httpConfig, env, args, debugLog, skey, addr, entry, run,
                   results>>

\* StartListener without the assignment to p.Timeout
StartListener_NoTimeout ==
    /\ pc = "HandlerConstructed"
    /\ addr' = [set |-> TRUE, host |-> httpConfig.host, port |-> httpConfig.port,
                text |-> Sprintf(httpConfig.host, httpConfig.port)]
    /\ stderr' = Append(stderr, "Listening")
    /\ trace' = Append(trace, Step("ListenAndServe", TRUE))
    /\ pc' = "Listening"
    /\ UNCHANGED <<httpConfig, env, args, err, exitCode, debugLog, skey, handler,
                   entry, run, results>>

\* StartListener with the assignment reversed: httpConfig.timeout = p.Timeout
StartListener_ReversedAssignment ==
    /\ pc = "HandlerConstructed"
    /\ httpConfig' = [httpConfig EXCEPT !.timeout = handler.Timeout]
    /\ addr' = [set |-> TRUE, host |-> httpConfig.host, port |-> httpConfig.port,
                text |-> Sprintf(httpConfig.host, httpConfig.port)]
    /\ stderr' = Append(stderr, "Listening")
    /\ trace' = Append(trace, Step("ListenAndServe", TRUE))
    /\ pc' = "Listening"
    /\ UNCHANGED <<env, args, err, exitCode, debugLog, skey, handler, entry, run,
                   results>>

\* p.Timeout = httpConfig.timeout; addr := host:port; http.ListenAndServe(addr, p)
\* is entered
StartListener ==
    /\ pc = "HandlerConstructed"
    /\ handler' = [handler EXCEPT !.Timeout = httpConfig.timeout]
    /\ addr' = [set |-> TRUE, host |-> httpConfig.host, port |-> httpConfig.port,
                text |-> Sprintf(httpConfig.host, httpConfig.port)]
    /\ stderr' = Append(stderr, "Listening")
    /\ trace' = Append(trace, Step("ListenAndServe", TRUE))
    /\ pc' = "Listening"
    /\ UNCHANGED <<httpConfig, env, args, err, exitCode, debugLog, skey, entry,
                   run, results>>

\* http.ListenAndServe returns its error, which is logged and not stored in err;
\* main returns through the deferred function
ListenerReturns ==
    /\ pc = "Listening"
    /\ trace' = Append(trace, Step("ListenAndServe", FALSE))
    /\ exitCode' = DeferredExit(err, Append(stderr, "Server stopped")).code
    /\ stderr' = DeferredExit(err, Append(stderr, "Server stopped")).out
    /\ pc' = "Stopped"
    /\ UNCHANGED <<httpConfig, env, args, err, debugLog, skey, handler, addr, entry,
                   run, results>>

Next ==
    \/ PackageInit
    \/ NewConfig
    \/ ParseFlags
    \/ ApplyEnvironment
    \/ LoadPrivateKey
    \/ NewProxy
    \/ StartListener
    \/ ListenerReturns

\* the steps of main before the blocking listener call: each returns
Startup ==
    \/ PackageInit
    \/ NewConfig
    \/ ParseFlags
    \/ ApplyEnvironment
    \/ LoadPrivateKey
    \/ NewProxy
    \/ StartListener

Spec == Init /\ [][Next]_vars

\* the runs the progress of main is checked on: every way the port and the
\* timeout variable can be absent, valid or invalid, with and without a flag
\* and with a command line flag.Parse rejects
LiveEnvs ==
    [host    : {Absent, Present("envhost")},
     verbose : {Absent},
     port    : {AbsentSeq, Present(<<"9", "0", "9", "0">>),
                Present(<<"n", "o", "t", "a", "n", "u", "m", "b", "e", "r">>)},
     timeout : {AbsentSeq, Present(<<"3", "0", "s">>),
                Present(<<"n", "o", "t", "a", "d", "u", "r", "a", "t", "i", "o", "n">>)}]

LiveArgs ==
    [bad     : {FALSE},
     verbose : {NotGiven(FALSE)},
     host    : {NotGiven("")},
     port    : {NotGiven(0), Given(8888)},
     timeout : {NotGiven(0), Given(60000)}] \cup {BadArgs}

InitLive == Init /\ env \in LiveEnvs /\ args \in LiveArgs

\* main runs sequentially and none of its steps before http.ListenAndServe
\* blocks, so a step that can be taken is taken; the listener may block forever
SpecLive == InitLive /\ [][Next]_vars /\ WF_vars(Startup)

----------------------------------------------------------------------------
(* The resolution harness of TestFlagsPrecedenceOverEnvironment: a fresh     *)
(* record with the flags registered again, flag.Parse, readFromEnvironment;  *)
(* performed MaxRuns times with the same command line and environment.       *)

InitResolve ==
    /\ httpConfig = ZeroConfig
    /\ env \in Envs
    /\ args \in GoodArgs
    /\ pc = "T.Setup"
    /\ err = Nil
    /\ exitCode = NoExit
    /\ stderr = <<>>
    /\ debugLog = FALSE
    /\ skey = NoKey
    /\ handler = NoHandler
    /\ addr = NoAddr
    /\ entry = ZeroConfig
    /\ trace = <<>>
    /\ run = 1
    /\ results = <<>>

\* the registrations on the record of the previous resolution
RegisterFlags_KeepRecord ==
    /\ pc = "T.Setup"
    /\ httpConfig' = IF run = 1 THEN DefaultConfig ELSE httpConfig
    /\ pc' = "T.Registered"
    /\ trace' = Append(trace, Step("register", TRUE))
    /\ UNCHANGED <<env, args, err, exitCode, stderr, debugLog, skey, handler, addr,
                   entry, run, results>>

\* httpConfig = &HTTPProxyConfig{} and the four flag registrations
RegisterFlags ==
    /\ pc = "T.Setup"
    /\ httpConfig' = DefaultConfig
    /\ pc' = "T.Registered"
    /\ trace' = Append(trace, Step("register", TRUE))
    /\ UNCHANGED <<env, args, err, exitCode, stderr, debugLog, skey, handler, addr,
                   entry, run, results>>

\* flag.Parse()
HarnessParse ==
    /\ pc = "T.Registered"
    /\ httpConfig' = FlagParse(httpConfig, args)
    /\ pc' = "T.Parsed"
    /\ trace' = Append(trace, Step("flag.Parse", TRUE))
    /\ UNCHANGED <<env, args, err, exitCode, stderr, debugLog, skey, handler, addr,
                   entry, run, results>>

\* err := readFromEnvironment(); the record and the error are what the test looks at
HarnessRead ==
    /\ pc = "T.Parsed"
    /\ LET r == readFromEnvironment(httpConfig, env)
       IN  /\ entry' = httpConfig
           /\ httpConfig' = r.cfg
           /\ err' = r.err
           /\ results' = Append(results, r)
           /\ trace' = Append(trace, Step("readFromEnvironment", r.err = Nil))
    /\ pc' = "T.Done"
    /\ UNCHANGED <<env, args, exitCode, stderr, debugLog, skey, handler, addr, run>>

\* the next resolution, with the same command line and environment
HarnessAgain ==
    /\ pc = "T.Done"
    /\ run < MaxRuns
    /\ run' = run + 1
    /\ pc' = "T.Setup"
    /\ UNCHANGED <<httpConfig, env, args, err, exitCode, stderr, debugLog,
                   skey, handler, addr, entry, trace, results>>

NextResolve ==
    \/ RegisterFlags
    \/ HarnessParse
    \/ HarnessRead
    \/ HarnessAgain

SpecResolve == InitResolve /\ [][NextResolve]_vars

----------------------------------------------------------------------------
(* readFromEnvironment called twice in a row on the same record, under the   *)
(* same environment: the record after flag.Parse, for every command line and *)
(* environment of the inputs.                                                *)

\* a second err := readFromEnvironment() right after the first
ReadAgain ==
    /\ pc = "T.Done"
    /\ Len(results) = 1
    /\ LET r == readFromEnvironment(httpConfig, env)
       IN  /\ entry' = httpConfig
           /\ httpConfig' = r.cfg
           /\ err' = r.err
           /\ results' = Append(results, r)
           /\ trace' = Append(trace, Step("readFromEnvironment", r.err = Nil))
    /\ pc' = "T.Twice"
    /\ UNCHANGED <<env, args, exitCode, stderr, debugLog, skey, handler, addr, run>>

NextTwice ==
    \/ RegisterFlags
    \/ HarnessParse
    \/ HarnessRead
    \/ ReadAgain

SpecTwice == InitResolve /\ [][NextTwice]_vars

----------------------------------------------------------------------------
(* What the claims speak of *)

\* readFromEnvironment has run
EnvApplied == \E i \in 1..Len(trace) : trace[i].step = "readFromEnvironment"

\* the integers the port strings of the inputs denote in base 10
ExpectedPort(s) ==
    CASE s = <<"9", "0", "9", "0">> -> 9090
      [] s = <<"8", "0", "8", "0">> -> 8080
      [] s = <<"7", "0", "0", "0", "0">> -> 70000
      [] s = <<"-", "1">> -> 0 - 1

ValidPortStrings ==
    { <<"9", "0", "9", "0">>, <<"8", "0", "8", "0">>,
      <<"7", "0", "0", "0", "0">>, <<"-", "1">> }

\* the durations (in milliseconds) the timeout strings of the inputs denote
ExpectedTimeout(s) ==
    CASE s = <<"3", "0", "s">> -> 30000
      [] s = <<"1", "m", "3", "0", "s">> -> 90000

ValidTimeoutStrings == { <<"3", "0", "s">>, <<"1", "m", "3", "0", "s">> }

\* the permissive boolean of TESLA_VERBOSE
ExpectedVerbose(v) == v \notin {"false", "0"}

PortParseable == env.port.ok /\ env.port.val \in ValidPortStrings

TimeoutParseable == env.timeout.ok /\ env.timeout.val \in ValidTimeoutStrings

\* the port step of readFromEnvironment consulted the environment and failed
PortStepFailed ==
    entry.port = defaultPort /\ env.port.ok /\ env.port.val \notin ValidPortStrings

\* the timeout step of readFromEnvironment consulted the environment and failed
TimeoutStepFailed ==
    /\ ~PortStepFailed
    /\ entry.timeout = DefaultTimeout
    /\ env.timeout.ok
    /\ env.timeout.val \notin ValidTimeoutStrings

----------------------------------------------------------------------------
(* C1: flags always win over the environment: for host, port, timeout and    *)
(* verbose, when the flag is given and the environment variable is present   *)
(* with a different value, the field after flag parsing and                  *)
(* readFromEnvironment holds the flag's value.                               *)
C1_FlagsAlwaysWin ==
    EnvApplied =>
        /\ (args.host.set /\ env.host.ok /\ env.host.val # args.host.val
              => httpConfig.host = args.host.val)
        /\ (args.port.set /\ env.port.ok
              /\ (PortParseable => ExpectedPort(env.port.val) # args.port.val)
              => httpConfig.port = args.port.val)
        /\ (args.timeout.set /\ env.timeout.ok
              /\ (TimeoutParseable => ExpectedTimeout(env.timeout.val) # args.timeout.val)
              => httpConfig.timeout = args.timeout.val)
        /\ (args.verbose.set /\ env.verbose.ok
              /\ ExpectedVerbose(env.verbose.val) # args.verbose.val
              => httpConfig.verbose = args.verbose.val)

(* C2: when the listener call returns the process terminates with exit       *)
(* status 1 after reporting the error, and no path through main produces     *)
(* exit status 0.                                                            *)
C2_ListenerFailureExitsNonZero ==
    /\ exitCode # 0
    /\ (Did("ListenAndServe", FALSE) => exitCode = 1 /\ pc = "Stopped")

(* C3: the listener is started only after configuration resolution, the      *)
(* loading of the private key and the construction of the handler have       *)
(* succeeded, in this order; when one of the three fails the process is      *)
(* Stopped with exit status 1 and the listener is never started in that run. *)
C3_ListenerOnlyAfterStartup ==
    /\ pc = "Listening" => Did("ListenAndServe", TRUE)
    /\ \A l \in 1..Len(trace) :
         trace[l].step = "ListenAndServe" =>
            \E a, b, c \in 1..Len(trace) :
               /\ a < b /\ b < c /\ c < l
               /\ trace[a] = Step("readFromEnvironment", TRUE)
               /\ trace[b] = Step("PrivateKey", TRUE)
               /\ trace[c] = Step("proxy.New", TRUE)
    /\ \A i \in 1..Len(trace) :
         trace[i].step \in {"readFromEnvironment", "PrivateKey", "proxy.New"}
           /\ ~trace[i].ok =>
              /\ pc = "Stopped"
              /\ exitCode = 1
              /\ stderr # <<>>
              /\ ~addr.set
              /\ \A l \in 1..Len(trace) : trace[l].step # "ListenAndServe"

\* the listener runs, after the three steps
C3_Witness ==
    /\ pc = "Listening"
    /\ addr.set
    /\ handler.built
    /\ Did("readFromEnvironment", TRUE)

NoFlags == ~args.bad /\ \A f \in {"verbose", "host", "port", "timeout"} : ~args[f].set

NoEnvironment == \A f \in {"verbose", "host", "port", "timeout"} : ~env[f].ok

(* C4: the statement as claimed: for each setting with no flag and a         *)
(* present, parseable environment variable, the field equals the parsed      *)
(* value and readFromEnvironment returns no error.                           *)
C4_AsClaimed ==
    EnvApplied =>
        /\ (~args.host.set /\ env.host.ok
              => httpConfig.host = env.host.val /\ Did("readFromEnvironment", TRUE))
        /\ (~args.verbose.set /\ env.verbose.ok
              => /\ httpConfig.verbose = ExpectedVerbose(env.verbose.val)
                 /\ Did("readFromEnvironment", TRUE))
        /\ (~args.port.set /\ PortParseable
              => /\ httpConfig.port = ExpectedPort(env.port.val)
                 /\ Did("readFromEnvironment", TRUE))
        /\ (~args.timeout.set /\ TimeoutParseable
              => /\ httpConfig.timeout = ExpectedTimeout(env.timeout.val)
                 /\ Did("readFromEnvironment", TRUE))

(* C4 (amended): with no flag for it and its environment variable present    *)
(* and parseable, host, verbose and port equal the parsed environment value, *)
(* and so does timeout unless the port step failed before it; and            *)
(* readFromEnvironment returns no error when neither the port step nor the   *)
(* timeout step met an unparseable value.                                    *)
C4_EnvironmentOnly ==
    EnvApplied =>
        /\ (~args.host.set /\ env.host.ok => httpConfig.host = env.host.val)
        /\ (~args.verbose.set /\ env.verbose.ok
              => httpConfig.verbose = ExpectedVerbose(env.verbose.val))
        /\ (~args.port.set /\ PortParseable
              => httpConfig.port = ExpectedPort(env.port.val))
        /\ (~args.timeout.set /\ TimeoutParseable /\ ~PortStepFailed
              => httpConfig.timeout = ExpectedTimeout(env.timeout.val))
        /\ (~PortStepFailed /\ ~TimeoutStepFailed => Did("readFromEnvironment", TRUE))

\* the four variables of TestEnvironmentVariables' kind, no flag, all applied
C4_Witness ==
    /\ EnvApplied
    /\ NoFlags
    /\ env.host.ok /\ env.verbose.ok /\ PortParseable /\ TimeoutParseable
    /\ httpConfig.port = 9090
    /\ httpConfig.timeout = 30000
    /\ httpConfig.host = "envhost"
    /\ httpConfig.verbose

(* C5: with the default port in the record and TESLA_HTTP_PROXY_PORT present *)
(* but no base-10 integer, readFromEnvironment returns an error and leaves   *)
(* timeout as it was on entry, also when TESLA_HTTP_PROXY_TIMEOUT is valid.  *)
C5_InvalidPortStopsResolution ==
    EnvApplied /\ PortStepFailed =>
        /\ Did("readFromEnvironment", FALSE)
        /\ err = "invalid port"
        /\ httpConfig.timeout = entry.timeout

\* an invalid port with a valid timeout variable that was not applied
C5_Witness ==
    /\ EnvApplied
    /\ PortStepFailed
    /\ TimeoutParseable
    /\ entry.timeout = DefaultTimeout
    /\ httpConfig.timeout = DefaultTimeout

(* C6: with the default timeout in the record and TESLA_HTTP_PROXY_TIMEOUT   *)
(* present but no valid duration, readFromEnvironment returns an error,      *)
(* provided the port step did not fail before.                               *)
C6_InvalidTimeoutIsAnError ==
    EnvApplied /\ TimeoutStepFailed =>
        /\ Did("readFromEnvironment", FALSE)
        /\ err = "invalid timeout"

\* an invalid timeout reached after a port step that consulted the environment
C6_Witness ==
    /\ EnvApplied
    /\ TimeoutStepFailed
    /\ PortParseable
    /\ entry.port = defaultPort
    /\ pc = "Stopped"

(* C7: verbose not set by flag: a present TESLA_VERBOSE makes verbose false  *)
(* exactly for "false" and "0" and true for every other value, an absent one *)
(* leaves verbose untouched, and the step produces no error.                 *)
C7_VerboseIsPermissive ==
    EnvApplied /\ ~args.bad /\ ~args.verbose.set =>
        /\ (env.verbose.ok =>
              (httpConfig.verbose = FALSE <=> env.verbose.val \in {"false", "0"}))
        /\ (~env.verbose.ok => httpConfig.verbose = entry.verbose)
        /\ (~PortStepFailed /\ ~TimeoutStepFailed => Did("readFromEnvironment", TRUE))
        /\ (Did("readFromEnvironment", FALSE) => err \in {"invalid port", "invalid timeout"})

\* TESLA_VERBOSE=no switched verbose on
C7_Witness ==
    /\ EnvApplied
    /\ ~args.verbose.set
    /\ env.verbose = Present("no")
    /\ httpConfig.verbose

(* C8: with no flag and none of the four environment variables,              *)
(* readFromEnvironment returns no error and the record holds the defaults    *)
(* localhost, 8080, the default timeout and false.                           *)
C8_Defaults ==
    EnvApplied /\ NoFlags /\ NoEnvironment =>
        /\ Did("readFromEnvironment", TRUE)
        /\ httpConfig = [verbose |-> FALSE, host |-> "localhost", port |-> 8080,
                         timeout |-> DefaultTimeout]

\* a resolution from nothing
C8_Witness == EnvApplied /\ NoFlags /\ NoEnvironment /\ pc = "ConfigResolved"

C11_NoPartialMerge ==
    EnvApplied =>
        /\ \/ httpConfig.host = "localhost"
           \/ args.host.set /\ httpConfig.host = args.host.val
           \/ env.host.ok /\ httpConfig.host = env.host.val
        /\ \/ httpConfig.verbose = FALSE
           \/ args.verbose.set /\ httpConfig.verbose = args.verbose.val
           \/ env.verbose.ok /\ httpConfig.verbose = ExpectedVerbose(env.verbose.val)
        /\ \/ httpConfig.port = 8080
           \/ args.port.set /\ httpConfig.port = args.port.val
           \/ PortParseable /\ httpConfig.port = ExpectedPort(env.port.val)
        /\ \/ httpConfig.timeout = DefaultTimeout
           \/ args.timeout.set /\ httpConfig.timeout = args.timeout.val
           \/ TimeoutParseable /\ httpConfig.timeout = ExpectedTimeout(env.timeout.val)

(* C12: readFromEnvironment consults the environment for a field only if the *)
(* field equals its default on entry: a field that differs from its default  *)
(* on entry is left unchanged whatever the environment holds, and its        *)
(* variable raises no error.                                                 *)
C12_NonDefaultFieldsAreLeftAlone ==
    EnvApplied =>
        /\ (entry.host # "localhost" => httpConfig.host = entry.host)
        /\ (entry.verbose = TRUE => httpConfig.verbose = TRUE)
        /\ (entry.port # 8080 =>
              httpConfig.port = entry.port /\ err # "invalid port")
        /\ (entry.timeout # DefaultTimeout =>
              httpConfig.timeout = entry.timeout /\ err # "invalid timeout")
        /\ (entry.port # 8080 /\ entry.timeout # DefaultTimeout
              => Did("readFromEnvironment", TRUE))

\* flags for every field, and an environment that would change or break each
C12_Witness ==
    /\ EnvApplied
    /\ entry = [verbose |-> TRUE, host |-> "flaghost", port |-> 8888, timeout |-> 60000]
    /\ httpConfig = entry
    /\ env.host = Present("envhost")
    /\ env.verbose = Present("false")
    /\ env.port.ok /\ ~PortParseable
    /\ env.timeout.ok /\ ~TimeoutParseable
    /\ Did("readFromEnvironment", TRUE)

\* the decimal text of the ports of the inputs
PortText(n) ==
    CASE n = 8080 -> <<"8", "0", "8", "0">>
      [] n = 8888 -> <<"8", "8", "8", "8">>
      [] n = 9090 -> <<"9", "0", "9", "0">>
      [] n = 70000 -> <<"7", "0", "0", "0", "0">>
      [] n = 0 - 1 -> <<"-", "1">>

(* C13: in the Listening state the handler was constructed with the loaded   *)
(* private key and cache capacity 10000, its Timeout is the resolved         *)
(* timeout, and the bind address is the resolved host and port joined as     *)
(* host:port.                                                                *)
C13_ListeningHandlerAndAddress ==
    pc = "Listening" =>
        /\ handler.built
        /\ skey = LoadedKey
        /\ handler.key = skey
        /\ handler.cache = 10000
        /\ handler.Timeout = httpConfig.timeout
        /\ addr.set
        /\ addr.text = <<httpConfig.host, ":">> \o PortText(httpConfig.port)

\* listening on envhost:9090 with the timeout of the environment
C13_Witness ==
    /\ pc = "Listening"
    /\ httpConfig.timeout = 30000
    /\ handler.Timeout = 30000
    /\ addr.text = <<"envhost", ":", "9", "0", "9", "0">>

\* the positions of main before the configuration is resolved
BeforeResolved == {"Loaded", "Unstarted", "CredConfig", "FlagsParsed"}

(* C14: the record is mutated in two passes in a fixed order, flag parsing   *)
(* and then the environment, and is frozen afterwards: no step from the      *)
(* loading of the credential onward changes host, port, timeout or verbose.  *)
C14_RecordFrozenAfterResolution ==
    [][/\ (pc \notin BeforeResolved => httpConfig' = httpConfig)
       /\ (httpConfig' # httpConfig /\ pc # "Loaded" =>
             \/ pc = "CredConfig" /\ pc' = "FlagsParsed"
             \/ pc = "FlagsParsed" /\ pc' \in {"ConfigResolved", "Stopped"})
       /\ (pc = "FlagsParsed" => pc' # "CredConfig")]_vars

\* both passes changed the record, and the listener has returned
C14_Witness ==
    /\ Did("ListenAndServe", FALSE)
    /\ entry # DefaultConfig
    /\ httpConfig # entry
    /\ httpConfig = [verbose |-> TRUE, host |-> "flaghost", port |-> 9090,
                     timeout |-> 30000]

(* C15: the bootstrap validates the resolved port: a port outside 0..65535   *)
(* never reaches the start of the listener, so wherever the listener is      *)
(* started the port is within 0..65535.                                      *)
C15_PortInRangeWhenListening ==
    Did("ListenAndServe", TRUE) =>
        /\ httpConfig.port \in 0..65535
        /\ addr.port \in 0..65535

StartupSteps == {"NewConfig", "flag.Parse", "readFromEnvironment", "PrivateKey", "proxy.New"}

(* C16: the startup sequence never retries and always terminates or blocks   *)
(* in Listening: each of configuration resolution, credential loading and    *)
(* handler construction is attempted at most once per run, every failure     *)
(* leads directly to Stopped, and from every state before Listening the run  *)
(* eventually reaches Listening or Stopped.                                  *)
C16_StartupNeverRetriesAndEnds ==
    /\ [](\A i, j \in 1..Len(trace) :
            trace[i].step \in StartupSteps /\ trace[i].step = trace[j].step => i = j)
    /\ [][Len(trace') > Len(trace) /\ ~trace'[Len(trace')].ok => pc' = "Stopped"]_vars
    /\ [](pc \notin {"Listening", "Stopped"} => <>(pc \in {"Listening", "Stopped"}))

\* a run that failed at the credential step, each step taken once
C16_Witness ==
    /\ pc = "Stopped"
    /\ trace = <<Step("init", TRUE), Step("NewConfig", TRUE), Step("flag.Parse", TRUE),
                 Step("readFromEnvironment", TRUE), Step("PrivateKey", FALSE)>>

(* C17: readFromEnvironment works through host, verbose, port and timeout in *)
(* this order and commits each before it looks at the next: when it returns  *)
(* an invalid-port or invalid-timeout error the record is not restored, host *)
(* and verbose (and port, for a timeout error) hold their environment        *)
(* values.                                                                   *)
C17_ErrorLeavesEarlierFieldsResolved ==
    EnvApplied /\ Did("readFromEnvironment", FALSE) =>
        /\ (entry.host = "localhost" /\ env.host.ok => httpConfig.host = env.host.val)
        /\ (entry.verbose = FALSE /\ env.verbose.ok
              => httpConfig.verbose = ExpectedVerbose(env.verbose.val))
        /\ (err = "invalid timeout" /\ entry.port = 8080 /\ PortParseable
              => httpConfig.port = ExpectedPort(env.port.val))
        /\ (err = "invalid port" => httpConfig.timeout = entry.timeout)

\* an invalid timeout after host, verbose and port were taken from the environment
C17_Witness ==
    /\ Did("readFromEnvironment", FALSE)
    /\ err = "invalid timeout"
    /\ entry = [verbose |-> FALSE, host |-> "localhost", port |-> 8080,
                timeout |-> DefaultTimeout]
    /\ httpConfig.host = "envhost"
    /\ httpConfig.verbose = TRUE
    /\ httpConfig.port = 9090

(* C18: readFromEnvironment is idempotent on success: when a call returned   *)
(* nil, a second call right after it under the same environment returns nil  *)
(* and leaves the four fields unchanged.                                     *)
C18_IdempotentOnSuccess ==
    Len(results) = 2 /\ results[1].err = Nil =>
        /\ results[2].err = Nil
        /\ results[2].cfg = results[1].cfg
        /\ httpConfig = entry

\* a second call after a first one that took all four fields from the environment
C18_Witness ==
    /\ pc = "T.Twice"
    /\ Len(results) = 2
    /\ results[1].err = Nil
    /\ results[1].cfg = [verbose |-> TRUE, host |-> "envhost", port |-> 9090,
                         timeout |-> 30000]

(* C19: the environment can switch verbose on and never off: verbose true on *)
(* entry is true on exit for every TESLA_VERBOSE, so verbose is false after  *)
(* resolution only if the flag left it false and TESLA_VERBOSE is absent,    *)
(* "false" or "0".                                                           *)
C19_EnvironmentNeverSwitchesVerboseOff ==
    EnvApplied =>
        /\ (entry.verbose = TRUE => httpConfig.verbose = TRUE)
        /\ (httpConfig.verbose = FALSE =>
              /\ entry.verbose = FALSE
              /\ ~(args.verbose.set /\ args.verbose.val = TRUE)
              /\ (~env.verbose.ok \/ env.verbose.val \in {"false", "0"}))

\* -verbose with TESLA_VERBOSE=false stays on
C19_Witness ==
    /\ EnvApplied
    /\ args.verbose = Given(TRUE)
    /\ env.verbose = Present("false")
    /\ httpConfig.verbose = TRUE

====
